---- MODULE Spec2Model ----
(***************************************************************************)
(* Ownership lifecycle of a Rust subclass of a C++ class (subclass.rs).    *)
(*                                                                         *)
(* One pair is modelled: the Rust-side object, an Rc<RefCell<Subclass>>    *)
(* ("me"), and its C++-side peer.  The peer holds a                        *)
(* CppSubclassRustPeerHolder (Owned = strong Rc, Unowned = Weak); the Rust *)
(* object holds a CppSubclassCppPeerHolder (Empty, Owned = Box<UniquePtr>, *)
(* Unowned = raw pointer).  The program is single-threaded, so the model   *)
(* is one call stack: the constructor in progress (pc) and the stack of    *)
(* calls into methods of the Rust object (frames).                         *)
(***************************************************************************)
EXTENDS Integers, Sequences, FiniteSets, TLC

\* Bound on the number of Rc handles held by code outside the pair.
MaxExt == 2
\* Bound on the depth of nested calls into methods of the Rust object.
MaxDepth == 2
\* Bound on the number of delete_self calls in one behaviour.
MaxDeleteSelf == 2

VARIABLES
    implSelfOwned,   \* the subclass type implements CppSubclassSelfOwned
    kind,            \* constructor used: "none", "cpp", "rust", "self"
    pc,              \* "start", "making" (inside make_peer), "done"
    meAlive,         \* the RefCell<Subclass> inside the Rc has not been dropped
    peerAlive,       \* the C++ peer exists
    peerOwner,       \* who holds the UniquePtr<CppPeer>: "none", "ctor", "caller", "holder"
    rustHolder,      \* the peer's CppSubclassRustPeerHolder: "None", "Owned", "Unowned"
    cppHolder,       \* the Rust object's CppSubclassCppPeerHolder: "Empty", "Owned", "Unowned"
    strong,          \* Rc strong count of me
    weak,            \* number of Weak<RefCell<Subclass>> pointing at me
    ext,             \* Rc handles held by code outside the pair
    borrowFlag,      \* RefCell borrow flag: 0 unused, -1 writing, n > 0 readers
    frames,          \* stack of granted calls into the Rust object
    fatal,           \* "none", "PeerNotSetUp", "BorrowMutError", "BorrowError", "Crash"
    ub,              \* a destroyed peer has been dereferenced through the raw pointer
    lastAccess,      \* result of the last CppSubclassCppPeerHolder::get / pin_mut
    lastGet,         \* result of the last CppSubclassRustPeerHolder::get
    deleteSelfCalls  \* number of delete_self calls made so far

vars == <<implSelfOwned, kind, pc, meAlive, peerAlive, peerOwner, rustHolder,
          cppHolder, strong, weak, ext, borrowFlag, frames, fatal, ub,
          lastAccess, lastGet, deleteSelfCalls>>

Modes == {"mut", "shared"}
Frame == [via : {"holder", "ext"}, mode : Modes]

(***************************************************************************)
(* Pure functions of the holders.                                          *)
(***************************************************************************)

RustPeerHolder_get_always(h, cnt) == "Some"
RustPeerHolder_get_never(h, cnt) == IF h = "Owned" THEN "Some" ELSE "None"
\* CppSubclassRustPeerHolder::get: Owned clones the Rc; Unowned upgrades the
\* Weak, which succeeds iff the strong count is not zero.
RustPeerHolder_get(h, cnt) ==
    IF h = "Owned" THEN "Some"
    ELSE IF cnt > 0 THEN "Some" ELSE "None"

relinquish_ownership_keep(h) == h
relinquish_ownership_upgrade(h) == "Owned"
relinquish_ownership_toggle(h) == IF h = "Owned" THEN "Unowned" ELSE "Owned"
\* CppSubclassRustPeerHolder::relinquish_ownership
relinquish_ownership(h) ==
    IF h = "Owned" THEN "Unowned" ELSE h

CppPeerHolder_get_unchecked(h) == "ref"
\* CppSubclassCppPeerHolder::get
CppPeerHolder_get(h) ==
    CASE h = "Empty"   -> "panic"
      [] h = "Owned"   -> "ref"
      [] h = "Unowned" -> "ref"

\* CppSubclassCppPeerHolder::pin_mut
CppPeerHolder_pin_mut(h) ==
    CASE h = "Empty"   -> "panic"
      [] h = "Owned"   -> "ref"
      [] h = "Unowned" -> "ref"

set_owned_skip(h) == h
set_owned_raw(h) == "Unowned"
\* CppSubclassCppPeerHolder::set_owned
set_owned(h) == "Owned"

set_unowned_skip(h) == h
set_unowned_owning(h) == "Owned"
\* CppSubclassCppPeerHolder::set_unowned
set_unowned(h) == "Unowned"

\* The holder each constructor hands to make_peer.
CppOwnedHolder_weak == "Unowned"
CppOwnedHolder == "Owned"

RustOwnedBoxer_strong == "Owned"
RustOwnedBoxer == "Unowned"

SelfOwnedBoxer_weak == "Unowned"
SelfOwnedBoxer == "Owned"

DropLocalRc_forget(cnt) == cnt
\* The constructor's local Rc goes out of scope when new_cpp_owned returns.
DropLocalRc(cnt) == cnt - 1

borrow_mut_unchecked(flag) == TRUE
\* RefCell::borrow_mut as called on me: granted only when the flag is unused.
borrow_mut(flag) == flag = 0

borrow_unchecked(flag) == TRUE
\* RefCell::borrow as called on me: granted unless a writer is outstanding.
borrow(flag) == flag >= 0

(***************************************************************************)
(* Initial state: the subclass value exists with its peer holder Empty     *)
(* (Default for CppSubclassCppPeerHolder); no Rc and no peer exist yet.    *)
(***************************************************************************)
Init ==
    /\ implSelfOwned \in BOOLEAN
    /\ kind = "none"
    /\ pc = "start"
    /\ meAlive = FALSE
    /\ peerAlive = FALSE
    /\ peerOwner = "none"
    /\ rustHolder = "None"
    /\ cppHolder = "Empty"
    /\ strong = 0
    /\ weak = 0
    /\ ext = 0
    /\ borrowFlag = 0
    /\ frames = <<>>
    /\ fatal = "none"
    /\ ub = FALSE
    /\ lastAccess = "none"
    /\ lastGet = "none"
    /\ deleteSelfCalls = 0

\* Number of temporary Rc handles held by calls dispatched from the peer.
Temps == Cardinality({i \in 1..Len(frames) : frames[i].via = "holder"})

\* Number of granted mutable borrows of me that have not been released.
MutGrants ==
    Cardinality({i \in 1..Len(frames) : frames[i].mode = "mut"})
    + (IF pc = "making" THEN 1 ELSE 0)

\* Number of granted shared borrows of me that have not been released.
SharedGrants == Cardinality({i \in 1..Len(frames) : frames[i].mode = "shared"})

(***************************************************************************)
(* Dropping one strong Rc handle.  When the count reaches zero the         *)
(* RefCell<Subclass> is dropped and with it its peer holder: an Owned      *)
(* holder drops the UniquePtr, which destroys the peer and the peer's own  *)
(* holder; an Unowned or Empty holder drops nothing.                       *)
(***************************************************************************)
ReleaseStrong ==
    /\ strong' = strong - 1
    /\ IF strong - 1 > 0
       THEN UNCHANGED <<meAlive, peerAlive, peerOwner, rustHolder, weak>>
       ELSE /\ meAlive' = FALSE
            /\ IF cppHolder = "Owned" /\ peerAlive
               THEN /\ peerAlive' = FALSE
                    /\ peerOwner' = "none"
                    /\ rustHolder' = "None"
                    /\ weak' = weak - (IF rustHolder = "Unowned" THEN 1 ELSE 0)
               ELSE UNCHANGED <<peerAlive, peerOwner, rustHolder, weak>>

(***************************************************************************)
(* Constructors.  Each one boxes me in an Rc, builds the holder, takes the *)
(* mutable borrow and enters make_peer, which creates the peer around the  *)
(* holder; the Return action is the rest of the constructor.               *)
(***************************************************************************)
MakePeerBegin(k, holder) ==
    /\ fatal = "none"
    /\ pc = "start"
    /\ kind' = k
    /\ pc' = "making"
    /\ meAlive' = TRUE
    /\ strong' = 1 + (IF holder = "Owned" THEN 1 ELSE 0)
    /\ weak' = (IF holder = "Unowned" THEN 1 ELSE 0)
    /\ rustHolder' = holder
    /\ peerAlive' = TRUE
    /\ peerOwner' = "ctor"
    /\ borrowFlag' = -1
    /\ UNCHANGED <<implSelfOwned, cppHolder, ext, frames, fatal, ub,
                   lastAccess, lastGet, deleteSelfCalls>>

\* new_cpp_owned up to the call of make_peer.
NewCppOwnedBegin ==
    /\ kind = "none"
    /\ MakePeerBegin("cpp", CppOwnedHolder)

\* new_cpp_owned from the return of make_peer: set_unowned, then the borrow
\* and the local Rc are dropped and the UniquePtr goes to the caller.
NewCppOwnedReturn ==
    /\ fatal = "none"
    /\ pc = "making"
    /\ kind = "cpp"
    /\ cppHolder' = set_unowned(cppHolder)
    /\ peerOwner' = "caller"
    /\ borrowFlag' = 0
    /\ strong' = DropLocalRc(strong)
    /\ meAlive' = (strong' > 0)
    /\ pc' = "done"
    /\ UNCHANGED <<implSelfOwned, kind, peerAlive, rustHolder, weak, ext,
                   frames, fatal, ub, lastAccess, lastGet, deleteSelfCalls>>

\* new_rust_owned: make_owning_peer with a Weak holder.
NewRustOwnedBegin ==
    /\ kind = "none"
    /\ MakePeerBegin("rust", RustOwnedBoxer)

\* new_self_owned: make_owning_peer with a strong holder.
NewSelfOwnedBegin ==
    /\ implSelfOwned
    /\ kind = "none"
    /\ MakePeerBegin("self", SelfOwnedBoxer)

\* make_owning_peer from the return of peer_constructor: the borrow taken
\* for make_peer ends, a second borrow_mut stores the peer with set_owned,
\* and the Rc is returned to the caller.
MakeOwningPeerReturn ==
    /\ fatal = "none"
    /\ pc = "making"
    /\ kind \in {"rust", "self"}
    /\ cppHolder' = set_owned(cppHolder)
    /\ peerOwner' = "holder"
    /\ borrowFlag' = 0
    /\ ext' = 1
    /\ pc' = "done"
    /\ UNCHANGED <<implSelfOwned, kind, meAlive, peerAlive, rustHolder, strong,
                   weak, frames, fatal, ub, lastAccess, lastGet, deleteSelfCalls>>

(***************************************************************************)
(* Code outside the pair.                                                  *)
(***************************************************************************)

\* Rc::clone of a handle returned by new_rust_owned or new_self_owned.
CloneHandle ==
    /\ fatal = "none"
    /\ pc = "done"
    /\ ext >= 1
    /\ ext < MaxExt
    /\ ext' = ext + 1
    /\ strong' = strong + 1
    /\ UNCHANGED <<implSelfOwned, kind, pc, meAlive, peerAlive, peerOwner,
                   rustHolder, cppHolder, weak, borrowFlag, frames, fatal,
                   ub, lastAccess, lastGet, deleteSelfCalls>>

\* Drop of an Rc handle held outside the pair.  A handle through which a
\* borrow is outstanding cannot be dropped.
DropHandle ==
    /\ fatal = "none"
    /\ pc = "done"
    /\ ext >= 1
    /\ (\E i \in 1..Len(frames) : frames[i].via = "ext") => ext >= 2
    /\ ext' = ext - 1
    /\ ReleaseStrong
    /\ UNCHANGED <<implSelfOwned, kind, pc, cppHolder, borrowFlag, frames,
                   fatal, ub, lastAccess, lastGet, deleteSelfCalls>>

\* The caller of new_cpp_owned drops the UniquePtr: the peer is destroyed
\* and its holder is dropped with it.
DropContainer ==
    /\ fatal = "none"
    /\ pc = "done"
    /\ peerOwner = "caller"
    /\ peerAlive
    /\ peerAlive' = FALSE
    /\ peerOwner' = "none"
    /\ rustHolder' = "None"
    /\ IF rustHolder = "Owned"
       THEN /\ strong' = strong - 1
            /\ meAlive' = (strong - 1 > 0)
            /\ weak' = weak
       ELSE /\ weak' = weak - 1
            /\ UNCHANGED <<strong, meAlive>>
    /\ UNCHANGED <<implSelfOwned, kind, pc, cppHolder, ext, borrowFlag,
                   frames, fatal, ub, lastAccess, lastGet, deleteSelfCalls>>

\* The borrow a call asks of the RefCell.
Granted(mode) ==
    IF mode = "mut" THEN borrow_mut(borrowFlag) ELSE borrow(borrowFlag)

\* The panic of a refused borrow_mut or borrow.
BorrowPanic(mode) == IF mode = "mut" THEN "BorrowMutError" ELSE "BorrowError"

FlagAfterGrant(mode) == IF mode = "mut" THEN -1 ELSE borrowFlag + 1

\* A virtual method of the peer is dispatched to the Rust object: the peer
\* resolves its holder with get(), borrows the RefCell and runs the method.
\* An absent object is an ordinary outcome; a refused borrow is fatal.
VirtualCall(mode) ==
    /\ fatal = "none"
    /\ pc \in {"making", "done"}
    /\ peerAlive
    /\ Len(frames) < MaxDepth
    /\ lastGet' = RustPeerHolder_get(rustHolder, strong)
    /\ IF lastGet' = "None"
       THEN UNCHANGED <<strong, borrowFlag, frames, fatal>>
       ELSE IF Granted(mode)
            THEN /\ strong' = strong + 1
                 /\ borrowFlag' = FlagAfterGrant(mode)
                 /\ frames' = Append(frames, [via |-> "holder", mode |-> mode])
                 /\ fatal' = fatal
            ELSE /\ fatal' = BorrowPanic(mode)
                 /\ UNCHANGED <<strong, borrowFlag, frames>>
    /\ UNCHANGED <<implSelfOwned, kind, pc, meAlive, peerAlive, peerOwner,
                   rustHolder, cppHolder, weak, ext, ub, lastAccess,
                   deleteSelfCalls>>

\* Code holding an Rc handle borrows the RefCell and calls a method.
ExtCall(mode) ==
    /\ fatal = "none"
    /\ pc = "done"
    /\ ext >= 1
    /\ Len(frames) < MaxDepth
    /\ IF Granted(mode)
       THEN /\ borrowFlag' = FlagAfterGrant(mode)
            /\ frames' = Append(frames, [via |-> "ext", mode |-> mode])
            /\ fatal' = fatal
       ELSE /\ fatal' = BorrowPanic(mode)
            /\ UNCHANGED <<borrowFlag, frames>>
    /\ UNCHANGED <<implSelfOwned, kind, pc, meAlive, peerAlive, peerOwner,
                   rustHolder, cppHolder, strong, weak, ext, ub, lastAccess,
                   lastGet, deleteSelfCalls>>

\* The innermost call returns: its borrow is released and, for a call
\* dispatched from the peer, the temporary Rc is dropped.
Return ==
    /\ fatal = "none"
    /\ frames # <<>>
    /\ LET top == frames[Len(frames)] IN
       /\ frames' = SubSeq(frames, 1, Len(frames) - 1)
       /\ borrowFlag' = (IF top.mode = "mut" THEN 0 ELSE borrowFlag - 1)
       /\ IF top.via = "holder"
          THEN ReleaseStrong
          ELSE UNCHANGED <<strong, meAlive, peerAlive, peerOwner, rustHolder, weak>>
    /\ UNCHANGED <<implSelfOwned, kind, pc, cppHolder, ext, fatal, ub,
                   lastAccess, lastGet, deleteSelfCalls>>

\* Some code holds &self (or &mut self): make_peer, or the innermost call.
HasSelf == pc = "making" \/ frames # <<>>

HasMutSelf == pc = "making" \/ (frames # <<>> /\ frames[Len(frames)].mode = "mut")

\* The raw pointer of an Unowned peer holder points at a destroyed peer.
Dangling == cppHolder = "Unowned" /\ ~peerAlive

\* peer() or peer_mut() called from a method of the Rust object.
PeerAccess(mode) ==
    /\ fatal = "none"
    /\ IF mode = "mut" THEN HasMutSelf ELSE HasSelf
    /\ LET r == IF mode = "mut" THEN CppPeerHolder_pin_mut(cppHolder)
                               ELSE CppPeerHolder_get(cppHolder) IN
       IF r = "panic"
       THEN /\ fatal' = "PeerNotSetUp"
            /\ lastAccess' = "panic"
            /\ ub' = ub
       ELSE IF Dangling
            THEN /\ ub' = TRUE
                 /\ lastAccess' = "dangling"
                 /\ fatal' \in {"none", "Crash"}
            ELSE /\ lastAccess' = "ref"
                 /\ UNCHANGED <<fatal, ub>>
    /\ UNCHANGED <<implSelfOwned, kind, pc, meAlive, peerAlive, peerOwner,
                   rustHolder, cppHolder, strong, weak, ext, borrowFlag,
                   frames, lastGet, deleteSelfCalls>>

\* The peer's relinquish_ownership: its holder is replaced by
\* holder.relinquish_ownership(); a strong Rc that is replaced is dropped.
PeerRelinquish ==
    /\ rustHolder' = relinquish_ownership(rustHolder)
    /\ strong' = strong + (IF rustHolder' = "Owned" THEN 1 ELSE 0)
                        - (IF rustHolder = "Owned" THEN 1 ELSE 0)
    /\ weak' = weak + (IF rustHolder' = "Unowned" THEN 1 ELSE 0)
                    - (IF rustHolder = "Unowned" THEN 1 ELSE 0)

\* delete_self: self.peer().relinquish_ownership().
DeleteSelf ==
    /\ fatal = "none"
    /\ implSelfOwned
    /\ HasSelf
    /\ deleteSelfCalls < MaxDeleteSelf
    /\ deleteSelfCalls' = deleteSelfCalls + 1
    /\ IF CppPeerHolder_get(cppHolder) = "panic"
       THEN /\ fatal' = "PeerNotSetUp"
            /\ lastAccess' = "panic"
            /\ UNCHANGED <<ub, rustHolder, strong, weak>>
       ELSE IF Dangling
            THEN /\ ub' = TRUE
                 /\ lastAccess' = "dangling"
                 /\ fatal' \in {"none", "Crash"}
                 /\ UNCHANGED <<rustHolder, strong, weak>>
            ELSE /\ lastAccess' = "ref"
                 /\ PeerRelinquish
                 /\ UNCHANGED <<fatal, ub>>
    /\ UNCHANGED <<implSelfOwned, kind, pc, meAlive, peerAlive, peerOwner,
                   cppHolder, ext, borrowFlag, frames, lastGet>>

Next ==
    \/ NewCppOwnedBegin
    \/ NewCppOwnedReturn
    \/ NewRustOwnedBegin
    \/ NewSelfOwnedBegin
    \/ MakeOwningPeerReturn
    \/ CloneHandle
    \/ DropHandle
    \/ DropContainer
    \/ \E mode \in Modes : VirtualCall(mode)
    \/ \E mode \in Modes : ExtCall(mode)
    \/ Return
    \/ \E mode \in Modes : PeerAccess(mode)
    \/ DeleteSelf

Spec == Init /\ [][Next]_vars

(***************************************************************************)
(* Sanity of the model.                                                    *)
(***************************************************************************)
TypeOK ==
    /\ implSelfOwned \in BOOLEAN
    /\ kind \in {"none", "cpp", "rust", "self"}
    /\ pc \in {"start", "making", "done"}
    /\ meAlive \in BOOLEAN
    /\ peerAlive \in BOOLEAN
    /\ peerOwner \in {"none", "ctor", "caller", "holder"}
    /\ rustHolder \in {"None", "Owned", "Unowned"}
    /\ cppHolder \in {"Empty", "Owned", "Unowned"}
    /\ strong \in 0..(MaxExt + MaxDepth + 2)
    /\ weak \in 0..1
    /\ ext \in 0..MaxExt
    /\ borrowFlag \in -1..MaxDepth
    /\ frames \in Seq(Frame) /\ Len(frames) <= MaxDepth
    /\ fatal \in {"none", "PeerNotSetUp", "BorrowMutError", "BorrowError", "Crash"}
    /\ ub \in BOOLEAN
    /\ lastAccess \in {"none", "ref", "panic", "dangling"}
    /\ lastGet \in {"none", "Some", "None"}
    /\ deleteSelfCalls \in 0..MaxDeleteSelf

\* The strong count is the number of Rc handles that exist.
CountOK ==
    /\ strong = ext + Temps
                + (IF rustHolder = "Owned" THEN 1 ELSE 0)
                + (IF pc = "making" THEN 1 ELSE 0)
    /\ weak = (IF rustHolder = "Unowned" THEN 1 ELSE 0)
    /\ meAlive <=> strong > 0
    /\ borrowFlag = (IF MutGrants > 0 THEN -1 ELSE SharedGrants)

(***************************************************************************)
(* Properties.                                                             *)
(***************************************************************************)

\* C1: re-entrant mutable access is fatal, never aliased.  At most one
\* mutable borrow of the Rust object is granted at a time and none alongside
\* a shared one; a virtual dispatch that resolves the object and asks for a
\* mutable borrow while one is outstanding ends in the BorrowMutError panic
\* and is granted nothing.
C1_ReentrantMutableIsFatal ==
    [][ /\ MutGrants' <= 1
        /\ (MutGrants' = 1 => SharedGrants' = 0)
        /\ (VirtualCall("mut") /\ MutGrants >= 1 /\ lastGet' = "Some")
              => (fatal' = "BorrowMutError" /\ frames' = frames) ]_vars

\* C1 witness: a mutable method dispatched from the peer is running and a
\* second mutable dispatch on the same object has just failed.
C1_Witness ==
    /\ kind = "cpp"
    /\ pc = "done"
    /\ frames = <<[via |-> "holder", mode |-> "mut"]>>
    /\ fatal = "BorrowMutError"

\* The holders in which each constructor leaves the pair.
Topology(k) ==
    CASE k = "cpp"  -> rustHolder = "Owned" /\ cppHolder = "Unowned" /\ peerOwner = "caller"
      [] k = "rust" -> rustHolder = "Unowned" /\ cppHolder = "Owned" /\ peerOwner = "holder"
      [] k = "self" -> rustHolder = "Owned" /\ cppHolder = "Owned" /\ peerOwner = "holder"
      [] OTHER      -> FALSE

\* C2: each constructor ends in its documented topology.  At the step on
\* which a constructor returns, new_cpp_owned leaves (Owned Rust holder,
\* Unowned peer holder, UniquePtr with the caller), new_rust_owned leaves
\* (Unowned, Owned) and new_self_owned leaves (Owned, Owned).
C2_ConstructorTopology ==
    [][ (pc = "making" /\ pc' = "done") => Topology(kind)' ]_vars

\* C2 witness: new_cpp_owned has returned and nothing else has happened.
C2_Witness ==
    /\ kind = "cpp"
    /\ pc = "done"
    /\ Topology("cpp")
    /\ lastGet = "none"
    /\ lastAccess = "none"

\* C3: a self-owned pair stays alive until delete_self is called, whatever
\* handles the outside code drops.
C3_SelfOwnedStaysAlive ==
    (kind = "self" /\ pc = "done" /\ deleteSelfCalls = 0)
        => (meAlive /\ peerAlive)

\* C3 witness: every outside handle of a self-owned pair has been dropped,
\* delete_self has not been called, and the pair is alive.
C3_Witness ==
    /\ kind = "self"
    /\ pc = "done"
    /\ deleteSelfCalls = 0
    /\ ext = 0
    /\ frames = <<>>
    /\ meAlive
    /\ peerAlive

\* C4: once delete_self has been called on a self-owned pair and no strong
\* handle is left outside the pair (none held by outside code, none held by
\* a call dispatched from the peer), both halves have been destroyed.
C4_DeleteSelfReleases ==
    (kind = "self" /\ pc = "done" /\ deleteSelfCalls >= 1 /\ ext = 0 /\ Temps = 0)
        => (~meAlive /\ ~peerAlive)

\* C4 witness: delete_self was called from a method dispatched by the peer,
\* the method has returned, and both halves are gone.
C4_Witness ==
    /\ kind = "self"
    /\ pc = "done"
    /\ deleteSelfCalls = 1
    /\ lastAccess = "ref"
    /\ ext = 0
    /\ frames = <<>>
    /\ ~meAlive
    /\ ~peerAlive

\* C5: a pair built by new_rust_owned is alive while outside code holds a
\* strong handle, the two halves live and die together, and once no strong
\* handle is left both have been destroyed: the peer's Weak holder keeps
\* nothing alive.
C5_RustOwnedLifetime ==
    (kind = "rust" /\ pc = "done")
        => /\ (ext >= 1 => (meAlive /\ peerAlive))
           /\ (meAlive <=> peerAlive)
           /\ ((ext = 0 /\ Temps = 0) => (~meAlive /\ ~peerAlive))

\* C5 witness: the last handle of a rust-owned pair has been dropped and
\* both halves are gone.
C5_Witness ==
    /\ kind = "rust"
    /\ pc = "done"
    /\ ext = 0
    /\ Temps = 0
    /\ ~meAlive
    /\ ~peerAlive

\* The caller of new_cpp_owned has dropped the UniquePtr it was given.
ContainerDropped == kind = "cpp" /\ pc = "done" /\ peerOwner # "caller"

C7_EmptyAccessIsFatal ==
    (cppHolder = "Empty" /\ lastAccess # "none")
        => (lastAccess = "panic" /\ fatal = "PeerNotSetUp")

\* C7 witness: make_peer has accessed the peer before it was set.
C7_Witness ==
    /\ pc = "making"
    /\ cppHolder = "Empty"
    /\ lastAccess = "panic"
    /\ fatal = "PeerNotSetUp"

\* C8: after any constructor has returned, and while both halves are alive,
\* the peer holder is not Empty: get() and pin_mut() return a reference and
\* no "Peer not set up" panic has happened.
C8_AccessAfterConstruction ==
    (pc = "done" /\ meAlive /\ peerAlive)
        => /\ cppHolder # "Empty"
           /\ CppPeerHolder_get(cppHolder) = "ref"
           /\ CppPeerHolder_pin_mut(cppHolder) = "ref"
           /\ fatal # "PeerNotSetUp"

\* C8 witness: a method of a constructed, live pair has accessed the peer.
C8_Witness ==
    /\ pc = "done"
    /\ kind = "rust"
    /\ meAlive
    /\ peerAlive
    /\ lastAccess = "ref"
    /\ fatal = "none"

\* C9: the peer holder changes variant exactly once.  Every change is from
\* Empty to Owned or to Unowned, set_owned and set_unowned only ever act on
\* an Empty holder, and the change has happened when the constructor has
\* returned; a holder that has left Empty never changes again.
C9_PeerHolderTransitionsOnce ==
    [][ /\ (cppHolder' # cppHolder)
            => (cppHolder = "Empty" /\ cppHolder' \in {"Owned", "Unowned"})
        /\ (NewCppOwnedReturn \/ MakeOwningPeerReturn) => cppHolder = "Empty"
        /\ (pc' = "done") => cppHolder' # "Empty" ]_vars

\* C9 witness: a peer-owned pair whose holder is Unowned has gone through a
\* call and the destruction of the peer with the holder unchanged.
C9_Witness ==
    /\ kind = "cpp"
    /\ pc = "done"
    /\ cppHolder = "Unowned"
    /\ ~peerAlive
    /\ lastGet = "Some"

RustHolderVariants == {"Owned", "Unowned"}

\* C10: the peer's holder is only ever downgraded.  Between two variants
\* the only change is from Owned to Unowned, so it happens at most once and
\* an Unowned holder never becomes Owned; a holder dropped with its peer is
\* never replaced.
C10_RustHolderOnlyDowngraded ==
    [][ /\ (rustHolder \in RustHolderVariants /\ rustHolder' \in RustHolderVariants
                /\ rustHolder' # rustHolder)
            => (rustHolder = "Owned" /\ rustHolder' = "Unowned")
        /\ (pc = "done" /\ rustHolder = "None") => rustHolder' = "None" ]_vars

\* C10 witness: delete_self has been called twice on a self-owned pair and
\* the holder, downgraded by the first call, is still Unowned.
C10_Witness ==
    /\ kind = "self"
    /\ deleteSelfCalls = 2
    /\ peerAlive
    /\ rustHolder = "Unowned"

\* C11: relinquishing is idempotent.  A delete_self made after an earlier
\* one, on a peer whose holder is already Unowned, leaves the holder, the
\* strong and weak counts and the liveness of both halves as they were, and
\* does not fail.
C11_RelinquishIdempotent ==
    [][ (DeleteSelf /\ deleteSelfCalls >= 1 /\ rustHolder = "Unowned")
            => /\ rustHolder' = "Unowned"
               /\ strong' = strong
               /\ weak' = weak
               /\ meAlive' = meAlive
               /\ peerAlive' = peerAlive
               /\ fatal' = "none" ]_vars

\* C11 witness: delete_self has been called twice from one method of a
\* self-owned pair; the counts are those the first call left.
C11_Witness ==
    /\ kind = "self"
    /\ deleteSelfCalls = 2
    /\ Len(frames) = 1
    /\ ext = 0
    /\ rustHolder = "Unowned"
    /\ strong = 1
    /\ weak = 1
    /\ meAlive
    /\ peerAlive
    /\ fatal = "none"

\* C12: resolution of the peer's holder.  get() never changes the holder's
\* variant; on an Owned holder it returns the object, and the handle it
\* returns adds one to the strong count; on an Unowned holder it returns the
\* object iff the object is still alive, and absence is an ordinary result:
\* nothing fails and no count changes.
C12_GetResolution ==
    [][ (\E mode \in Modes : VirtualCall(mode))
            => /\ rustHolder' = rustHolder
               /\ (rustHolder = "Owned" => lastGet' = "Some")
               /\ (rustHolder = "Unowned" => (lastGet' = "Some" <=> meAlive))
               /\ (lastGet' = "Some" /\ fatal' = "none") => strong' = strong + 1
               /\ (lastGet' = "None")
                     => (fatal' = "none" /\ strong' = strong /\ frames' = frames) ]_vars

\* C12 witness: the peer is alive, its holder is Unowned, the Rust object
\* has been dropped, and a dispatch has resolved the holder to absent.
C12_Witness ==
    /\ peerAlive
    /\ rustHolder = "Unowned"
    /\ ~meAlive
    /\ lastGet = "None"
    /\ fatal = "none"

\* The peer's holder is the result of relinquish_ownership on an Owned
\* holder: the constructor built it Owned and it is now Unowned.
Relinquished == kind \in {"cpp", "self"} /\ rustHolder = "Unowned"

\* C13: round trip of relinquish_ownership.  A delete_self that finds an
\* Owned holder leaves an Unowned one that resolves to the object, which the
\* caller's handle keeps alive; from then on the holder resolves to the
\* object while the object is alive and to absence once it is destroyed.
C13_RelinquishRoundTrip ==
    [][ /\ (DeleteSelf /\ rustHolder = "Owned" /\ fatal' = "none")
            => /\ rustHolder' = "Unowned"
               /\ meAlive'
               /\ RustPeerHolder_get(rustHolder', strong') = "Some"
        /\ Relinquished'
            => (RustPeerHolder_get(rustHolder', strong') = "Some" <=> meAlive') ]_vars

\* C13 witness: the holder of a peer-owned pair was relinquished and the
\* object has since been destroyed; the holder resolves to absence.
C13_Witness ==
    /\ Relinquished
    /\ kind = "cpp"
    /\ deleteSelfCalls = 1
    /\ ~meAlive
    /\ peerAlive
    /\ RustPeerHolder_get(rustHolder, strong) = "None"

\* C14 as stated: in a self-owned pair the edge from the peer to the Rust
\* object and the edge from the Rust object to the peer are never both
\* owning.
C14_Original ==
    kind = "self" => ~(rustHolder = "Owned" /\ cppHolder = "Owned")

\* C14 amended: a self-owned pair is a cycle of two owning edges from the
\* return of new_self_owned until delete_self; once delete_self has been
\* called the edge from the peer is weak and only the edge from the Rust
\* object to the peer is owning.
C14_SelfOwnedCycle ==
    (kind = "self" /\ pc = "done" /\ meAlive)
        => /\ peerAlive
           /\ cppHolder = "Owned"
           /\ (deleteSelfCalls = 0 => rustHolder = "Owned")
           /\ (deleteSelfCalls >= 1 => rustHolder = "Unowned")

\* C14 witness: delete_self has turned the cycle of a live self-owned pair
\* into one weak and one owning edge.
C14_Witness ==
    /\ kind = "self"
    /\ pc = "done"
    /\ deleteSelfCalls = 1
    /\ meAlive
    /\ rustHolder = "Unowned"
    /\ cppHolder = "Owned"

\* C15: delete_self takes effect only on a pair built by new_self_owned:
\* whenever a delete_self changes the peer's holder, the pair is self-owned.
C15_DeleteSelfOnlySelfOwned ==
    [][ (DeleteSelf /\ rustHolder' # rustHolder) => kind = "self" ]_vars

\* C16: delete_self with surviving handles.  delete_self destroys neither
\* half; after it, a live self-owned pair has an Unowned peer-side holder and
\* an Owned Rust-side one, and the pair is alive exactly as long as a strong
\* handle to the Rust object exists outside the pair.
C16_DeleteSelfWithHandles ==
    [][ /\ DeleteSelf => (meAlive' = meAlive /\ peerAlive' = peerAlive)
        /\ (kind' = "self" /\ pc' = "done" /\ deleteSelfCalls' >= 1)
            => /\ (meAlive' <=> ext' + Temps' > 0)
               /\ (meAlive' <=> peerAlive')
               /\ meAlive' => (rustHolder' = "Unowned" /\ cppHolder' = "Owned") ]_vars

\* C16 witness: delete_self was called while outside code held a handle;
\* the method has returned and the pair lives on through that handle.
C16_Witness ==
    /\ kind = "self"
    /\ pc = "done"
    /\ deleteSelfCalls >= 1
    /\ frames = <<>>
    /\ ext = 1
    /\ strong = 1
    /\ meAlive
    /\ peerAlive
    /\ rustHolder = "Unowned"
    /\ cppHolder = "Owned"

\* C17: an Unowned holder that resolves to absent, the peer alive and the
\* Rust object destroyed, occurs only for a pair built by new_cpp_owned and
\* only when no strong handle to the object is left; it never occurs for a
\* pair built by new_rust_owned or new_self_owned.
C17_AbsentOnlyPeerOwned ==
    /\ (pc = "done" /\ peerAlive /\ ~meAlive)
          => (kind = "cpp" /\ rustHolder = "Unowned" /\ ext + Temps = 0)
    /\ lastGet = "None" => kind = "cpp"

\* C17 witness: the peer of a peer-owned pair has outlived the Rust object
\* and a dispatch has found the holder absent.
C17_Witness ==
    /\ kind = "cpp"
    /\ pc = "done"
    /\ peerAlive
    /\ ~meAlive
    /\ ext + Temps = 0
    /\ lastGet = "None"

\* The Rust object's holder owns the peer.
HolderOwnsPeer == meAlive /\ cppHolder = "Owned"

\* The caller of new_cpp_owned owns the peer.
CallerOwnsPeer == peerOwner = "caller"

\* C18: a live peer has exactly one exclusive owner.  Once the constructor
\* has returned it is either the Owned holder of the Rust object (pairs built
\* by new_rust_owned and new_self_owned) or the UniquePtr returned by
\* new_cpp_owned, whose holder is Unowned, never both and never neither;
\* inside the constructor it is the constructor's own UniquePtr alone.
C18_SinglePeerOwner ==
    /\ (pc = "done" /\ peerAlive)
          => /\ HolderOwnsPeer # CallerOwnsPeer
             /\ HolderOwnsPeer => (kind \in {"rust", "self"} /\ peerOwner = "holder")
             /\ CallerOwnsPeer => (kind = "cpp" /\ cppHolder = "Unowned")
    /\ (pc = "making" /\ peerAlive)
          => (peerOwner = "ctor" /\ ~HolderOwnsPeer /\ ~CallerOwnsPeer)

\* C18 witness: a peer-owned pair is in use, the caller owning the peer and
\* the holder of the Rust object not owning it.
C18_Witness ==
    /\ kind = "cpp"
    /\ pc = "done"
    /\ peerAlive
    /\ meAlive
    /\ CallerOwnsPeer
    /\ ~HolderOwnsPeer
    /\ lastAccess = "ref"

\* C19: no dangling Unowned reference.  For a pair built by new_cpp_owned,
\* while the Rust object is alive the peer its holder points at is alive,
\* and peer() / peer_mut() have never dereferenced a destroyed peer.
C19_NoDanglingUnowned ==
    (kind = "cpp" /\ pc = "done" /\ meAlive)
        => (peerAlive /\ ~ub /\ lastAccess # "dangling")

\* C20: construction holds the mutable borrow.  The Rust object is mutably
\* borrowed for as long as make_peer runs; a dispatch from the peer under
\* construction resolves the holder and its borrow, mutable or shared, is
\* refused fatally; when the constructor returns no borrow is outstanding.
C20_ConstructionHoldsBorrow ==
    [][ /\ pc' = "making" => (borrowFlag' = -1 /\ frames' = <<>>)
        /\ (pc = "making" /\ \E mode \in Modes : VirtualCall(mode))
            => /\ lastGet' = "Some"
               /\ fatal' \in {"BorrowMutError", "BorrowError"}
        /\ (pc = "making" /\ pc' = "done")
            => (borrowFlag' = 0 /\ frames' = <<>>) ]_vars

\* C20 witness: the peer under construction by new_rust_owned has called
\* back into the Rust object for a shared borrow and the call has failed.
C20_Witness ==
    /\ kind = "rust"
    /\ pc = "making"
    /\ lastGet = "Some"
    /\ fatal = "BorrowError"

====
